---- MODULE Spec2Model ----
(***************************************************************************)
(* The AI/ML salary dashboard (Streamlit_app.py) as a state machine.       *)
(*                                                                         *)
(* One script run is one interaction: load_data (memoized by               *)
(* st.cache_data), the country_name enrichment, the three sidebar widgets, *)
(* the filtered view df_f, the trend aggregate and its line chart, the     *)
(* job-title ranking with the "highest paid job" card, and the country     *)
(* ranking.  An uncaught exception stops the run where it is raised; a     *)
(* rerun starts the script again from its first line with a fresh          *)
(* namespace, only the st.cache_data store surviving.                      *)
(*                                                                         *)
(* Medians are floats in pandas (the mean of two integers may end in .5).  *)
(* Every median is held here in half-dollars: the number stored is twice   *)
(* the median, so 250.0 is 500 and 162500.5 is 325001.                     *)
(***************************************************************************)
EXTENDS Integers, Sequences, FiniteSets

VARIABLES
    file,             \* salaries.csv on disk: [status, rows]
    cache,            \* the st.cache_data store of load_data: [hit, value]
    reads,            \* how many times pd.read_csv has returned a table
    read_attempts,    \* calls of pd.read_csv in the current run
    first_run,        \* TRUE in the session's first script run
    pc,               \* the next block of the script to execute
    error,            \* "" or the exception that stopped the current run
    df,               \* the table of the current run
    selected_year,    \* st.sidebar.selectbox: {} (None) or {year}
    selected_country, \* st.sidebar.multiselect: a set of country names
    selected_exp,     \* st.sidebar.multiselect: a set of level codes
    df_f,             \* the filtered view
    trend,            \* (work_year, experience_level) medians
    job_salary,       \* job-title ranking
    top_job,          \* job_salary.iloc[0]["job_title"]
    top_salary,       \* job_salary.iloc[0]["salary_in_usd"], in half-dollars
    country_salary,   \* country ranking
    charts,           \* st.plotly_chart calls of the current run, in order
    card              \* the "Highest Paid Job" card: [shown, job, amount]

vars == <<file, cache, reads, read_attempts, first_run, pc, error, df,
          selected_year, selected_country, selected_exp, df_f, trend,
          job_salary, top_job, top_salary, country_salary, charts, card>>

(***************************************************************************)
(* Bounds of the model.                                                    *)
(***************************************************************************)
\* Rows of a salaries.csv drawn from Pool.
MaxRows == 3
\* Rows of a generated many-group salaries.csv.
MaxWide == 22
\* Rows of a one-group salaries.csv.
MaxGroup == 4

(***************************************************************************)
(* Program constants.                                                      *)
(***************************************************************************)
\* .head(10) of the job-title ranking.
TopJobs == 10
\* .head(20) of the country ranking.
TopCountries == 20

Range(s) == {s[i] : i \in DOMAIN s}

Min(a, b) == IF a <= b THEN a ELSE b

(***************************************************************************)
(* Python orders str by code point.  SortedStrings lists every string of   *)
(* the model in that order; StrRank is a string's place in it.             *)
(***************************************************************************)
SortedStrings ==
    <<"AA", "Analyst", "CA", "Canada", "DE", "Data Scientist", "EN", "EX",
      "FR", "France", "GB", "Germany", "IN", "India",
      "J01", "J02", "J03", "J04", "J05", "J06", "J07", "J08", "J09", "J10",
      "J11", "J12", "J13", "J14", "J15", "J16", "J17", "J18", "J19", "J20",
      "J21", "J22", "J23", "J24", "J25", "MI", "ML Engineer",
      "QM", "QN", "QO", "QP", "QQ", "QR", "QS", "QT", "QU", "QV", "QW", "QX",
      "QY", "QZ", "SE", "US", "United Kingdom", "United States",
      "XA", "XK", "XX", "ZZ">>

StrRank(s) == CHOOSE i \in DOMAIN SortedStrings : SortedStrings[i] = s

(***************************************************************************)
(* pycountry.countries: the ISO 3166 registry, as far as the model's codes *)
(* go.  A code is in it when the registry's own lookup finds it; any other *)
(* string is a lookup miss.                                                *)
(***************************************************************************)
Registry ==
    [c \in {"CA", "DE", "FR", "GB", "IN", "US"} |->
        CASE c = "CA" -> "Canada"
          [] c = "DE" -> "Germany"
          [] c = "FR" -> "France"
          [] c = "GB" -> "United Kingdom"
          [] c = "IN" -> "India"
          [] c = "US" -> "United States"]

\* What countries.get does on a miss depends on the pycountry release: older
\* ones raise KeyError, newer ones return None.
MissModes == {"KeyError", "None"}

\* pycountry.countries.get(alpha_2=code): a found entry, None, or an exception.
countries_get(code, mode) ==
    IF code \in DOMAIN Registry
    THEN [outcome |-> "found", name |-> Registry[code]]
    ELSE IF mode = "None"
         THEN [outcome |-> "None", name |-> ""]
         ELSE [outcome |-> "raise", name |-> ""]

\* A lookup miss reported under a placeholder instead of the code itself.
code_to_country_placeholder(code, mode) ==
    LET got == countries_get(code, mode)
    IN  IF got.outcome = "found" THEN got.name ELSE "Unknown"

\* code_to_country: .name of the entry; a raised lookup and the AttributeError
\* of None.name are both caught by the bare except, which returns the code.
code_to_country(code, mode) ==
    LET got == countries_get(code, mode)
    IN  CASE got.outcome = "found" -> got.name
          [] got.outcome = "None"  -> code
          [] got.outcome = "raise" -> code

\* df["country_name"] = df["employee_residence"].apply(code_to_country)
Enriched(d, mode) ==
    [i \in DOMAIN d |->
        [work_year          |-> d[i].work_year,
         experience_level   |-> d[i].experience_level,
         employee_residence |-> d[i].employee_residence,
         job_title          |-> d[i].job_title,
         salary_in_usd      |-> d[i].salary_in_usd,
         country_name       |-> code_to_country(d[i].employee_residence, mode)]]

(***************************************************************************)
(* Sorting and the median.                                                 *)
(***************************************************************************)
RECURSIVE SortedInts(_)
\* The elements of a finite set of integers, ascending.
SortedInts(S) ==
    IF S = {} THEN <<>>
    ELSE LET m == CHOOSE x \in S : \A y \in S : x <= y
         IN  <<m>> \o SortedInts(S \ {m})

RECURSIVE SortedStrs(_)
\* The elements of a finite set of strings, ascending by code point.
SortedStrs(S) ==
    IF S = {} THEN <<>>
    ELSE LET m == CHOOSE x \in S : \A y \in S : StrRank(x) <= StrRank(y)
         IN  <<m>> \o SortedStrs(S \ {m})

RECURSIVE Insert(_, _)
\* v put into the ascending sequence s.
Insert(s, v) ==
    IF s = <<>> THEN <<v>>
    ELSE IF v <= Head(s) THEN <<v>> \o s
         ELSE <<Head(s)>> \o Insert(Tail(s), v)

RECURSIVE SortAsc(_)
\* The values of s, ascending, repeats kept.
SortAsc(s) == IF s = <<>> THEN <<>> ELSE Insert(SortAsc(Tail(s)), Head(s))

\* The mean of the values as the median: what .mean() would report.
mean_for_median(values) ==
    LET n == Len(values)
        Sum[i \in 0..n] == IF i = 0 THEN 0 ELSE Sum[i - 1] + values[i]
    IN  (2 * Sum[n]) \div n

\* Series.median() of a non-empty group, in half-dollars: the middle value of
\* the sorted values, or the mean of the two middle ones.
median(values) ==
    LET s == SortAsc(values)
        n == Len(s)
    IN  IF n % 2 = 1
        THEN 2 * s[(n + 1) \div 2]
        ELSE s[n \div 2] + s[n \div 2 + 1]

\* The salary_in_usd column of rows, in row order.
Salaries(rows) == [i \in DOMAIN rows |-> rows[i].salary_in_usd]

(***************************************************************************)
(* The sidebar (lines 48-63).                                              *)
(***************************************************************************)
years(d) == SortedInts({d[i].work_year : i \in DOMAIN d})

countries(d) == SortedStrs({d[i].country_name : i \in DOMAIN d})

experience_levels(d) == SortedStrs({d[i].experience_level : i \in DOMAIN d})

\* st.sidebar.selectbox: one of the options, None when there is none.
SelectboxValues(options) ==
    IF options = <<>> THEN {{}} ELSE {{y} : y \in Range(options)}

\* The selectbox before the user touches it: the first option.
SelectboxDefault(options) ==
    IF options = <<>> THEN {} ELSE {options[1]}

\* st.sidebar.multiselect: any subset of the options.
MultiselectValues(options) == SUBSET Range(options)

(***************************************************************************)
(* The filtered view (lines 68-72).                                        *)
(***************************************************************************)
\* The mask with the country test on the raw residence code.
filter_on_residence(d, year, ctry, exp) ==
    SelectSeq(d, LAMBDA r : /\ r.work_year \in year
                            /\ r.employee_residence \in ctry
                            /\ r.experience_level \in exp)

\* The mask with the year test left out.
filter_without_year(d, year, ctry, exp) ==
    SelectSeq(d, LAMBDA r : /\ r.country_name \in ctry
                            /\ r.experience_level \in exp)

\* df[(work_year == selected_year) & country_name.isin(...) &
\*    experience_level.isin(...)]: boolean-mask indexing keeps the accepted
\* rows as they are, in their order.
filter(d, year, ctry, exp) ==
    SelectSeq(d, LAMBDA r : /\ r.work_year \in year
                            /\ r.country_name \in ctry
                            /\ r.experience_level \in exp)

(***************************************************************************)
(* The aggregators.                                                        *)
(***************************************************************************)
\* groupby(["work_year", "experience_level"])["salary_in_usd"].median()
\* .reset_index(): one row per observed pair, ordered by work_year and then
\* by experience_level (groupby sorts its keys).
median_by_year_level(rows) ==
    LET ys == years(rows)
        ls == experience_levels(rows)
        LevelsOf(y) ==
            SelectSeq(ls, LAMBDA l :
                \E k \in DOMAIN rows : /\ rows[k].work_year = y
                                       /\ rows[k].experience_level = l)
        Upto[i \in 0..Len(ys)] ==
            IF i = 0 THEN <<>>
            ELSE Upto[i - 1] \o
                 [j \in 1..Len(LevelsOf(ys[i])) |->
                    [work_year        |-> ys[i],
                     experience_level |-> LevelsOf(ys[i])[j],
                     salary_in_usd    |->
                        median(Salaries(SelectSeq(rows, LAMBDA r :
                            /\ r.work_year = ys[i]
                            /\ r.experience_level = LevelsOf(ys[i])[j])))]]
    IN  Upto[Len(ys)]

\* The trend computed from the filtered view df_f.
trend_of_filtered(d, year, ctry, exp) ==
    median_by_year_level(filter(d, year, ctry, exp))

\* trend (lines 79-84): the rows of df whose level is selected, whatever
\* their year and country; selected_year and selected_country are not read.
trend_of(d, year, ctry, exp) ==
    median_by_year_level(SelectSeq(d, LAMBDA r : r.experience_level \in exp))

\* df_f.groupby("job_title")["salary_in_usd"].median(): one row per title,
\* in ascending title order.
median_by_job_title(view) ==
    LET ks == SortedStrs({view[i].job_title : i \in DOMAIN view})
    IN  [i \in DOMAIN ks |->
            [job_title     |-> ks[i],
             salary_in_usd |->
                median(Salaries(SelectSeq(view, LAMBDA r : r.job_title = ks[i])))]]

\* df_f.groupby("country_name")["salary_in_usd"].median(): one row per
\* country, in ascending name order.
median_by_country_name(view) ==
    LET ks == SortedStrs({view[i].country_name : i \in DOMAIN view})
    IN  [i \in DOMAIN ks |->
            [country_name  |-> ks[i],
             salary_in_usd |->
                median(Salaries(SelectSeq(view, LAMBDA r : r.country_name = ks[i])))]]

RECURSIVE DescOrders(_)
\* Every arrangement of the rows of S with salary_in_usd never increasing.
DescOrders(S) ==
    IF S = {} THEN {<<>>}
    ELSE LET top == {g \in S : \A h \in S : h.salary_in_usd <= g.salary_in_usd}
         IN  UNION {{<<g>> \o rest : rest \in DescOrders(S \ {g})} : g \in top}

\* .sort_values(ascending=False): the default kind is "quicksort", which is
\* not a stable sort, so rows with equal medians may come out in any order.
\* The set of the results a build may give.
sort_values(groups) == DescOrders(Range(groups))

\* The truncation keeping one row too few.
head_one_short(s, k) == SubSeq(s, 1, Min(k, Len(s)) - 1)

\* .head(k): the first k rows, all of them when there are fewer.
head(s, k) == SubSeq(s, 1, Min(k, Len(s)))

\* job_salary["color"] (lines 127-129): blue for the top job, light for the rest.
with_color(js, top) ==
    [i \in DOMAIN js |->
        [job_title     |-> js[i].job_title,
         salary_in_usd |-> js[i].salary_in_usd,
         color         |-> IF js[i].job_title = top THEN "#2E86C1" ELSE "#AED6F1"]]

\* int(top_salary) in the card: the float cut to its whole dollars.
int_of(half_dollars) == half_dollars \div 2

(***************************************************************************)
(* salaries.csv.                                                           *)
(***************************************************************************)
Row(y, l, c, t, s) ==
    [work_year |-> y, experience_level |-> l, employee_residence |-> c,
     job_title |-> t, salary_in_usd |-> s]

\* The rows small files are made of: two years, two levels, a residence the
\* registry knows and one it does not, equal and unequal salaries.
Pool ==
    { Row(2023, "SE", "US", "Data Scientist", 150000),
      Row(2023, "SE", "US", "Data Scientist", 170000),
      Row(2023, "EN", "DE", "Analyst", 50000),
      Row(2023, "EN", "XX", "ML Engineer", 50000),
      Row(2022, "SE", "XX", "Analyst", 70001),
      Row(2022, "EN", "US", "Data Scientist", 60000) }

Tables == UNION {[1..n -> Pool] : n \in 0..MaxRows}

Files ==
    {[status |-> "ok", rows |-> t] : t \in Tables}
    \cup {[status |-> "missing", rows |-> <<>>]}
    \cup {[status |-> "malformed", rows |-> t] : t \in [1..1 -> Pool]}

\* Job titles and residence codes of the generated files.
TitleList ==
    <<"J01", "J02", "J03", "J04", "J05", "J06", "J07", "J08", "J09", "J10",
      "J11", "J12", "J13", "J14", "J15", "J16", "J17", "J18", "J19", "J20",
      "J21", "J22", "J23", "J24", "J25">>

CodeList ==
    <<"US", "XX", "DE", "QM", "IN", "ZZ", "GB", "AA", "CA", "XK",
      "FR", "QN", "QO", "QP", "QQ", "QR", "QS", "QT", "QU", "QV",
      "QW", "QX", "QY", "QZ", "XA">>

\* Salaries of a generated file, by row: falling, rising, or falling with the
\* rows just past the two truncation points tied with the row before them.
WidePatterns == {"falling", "rising", "tied"}

WideSalary(pat, i) ==
    CASE pat = "falling" -> 1000 * (MaxWide + 2 - i)
      [] pat = "rising"  -> 1000 * i + 1
      [] pat = "tied"    -> IF i \in {TopJobs + 1, TopCountries + 1}
                            THEN 1000 * (MaxWide + 3 - i)
                            ELSE 1000 * (MaxWide + 2 - i)

\* How many distinct titles (and residences) a generated file cycles through.
WideGroups == {1, 3, TopJobs, TopJobs + 1, TopCountries, TopCountries + 1, MaxWide}

\* A one-year file of n rows over m titles and m residences.
WideTable(n, m, pat) ==
    [i \in 1..n |->
        Row(2023,
            IF i % 2 = 0 THEN "SE" ELSE "EN",
            CodeList[((i - 1) % m) + 1],
            TitleList[m - ((i - 1) % m)],
            WideSalary(pat, i))]

\* One title, one residence: every arrangement of up to MaxGroup amounts.
Amounts == {100, 200, 300, 400}

GroupTables ==
    UNION {{[i \in 1..n |-> Row(2023, "SE", "US", "Analyst", v[i])] :
                v \in [1..n -> Amounts]} : n \in 1..MaxGroup}

\* Tables written out: two titles with one median met in either order, and
\* three rows over two titles and two countries.
ScenarioTables ==
    { <<Row(2023, "EN", "XX", "ML Engineer", 50000),
        Row(2023, "EN", "DE", "Analyst", 50000)>>,
      <<Row(2023, "EN", "DE", "Analyst", 50000),
        Row(2023, "EN", "XX", "ML Engineer", 50000)>>,
      <<Row(2023, "SE", "US", "Data Scientist", 150000),
        Row(2023, "SE", "US", "Data Scientist", 170000),
        Row(2023, "EN", "DE", "Analyst", 50000)>> }

RankingFiles ==
    {[status |-> "ok", rows |-> WideTable(n, m, pat)] :
        n \in 0..MaxWide, m \in WideGroups, pat \in WidePatterns}
    \cup {[status |-> "ok", rows |-> t] : t \in GroupTables \cup ScenarioTables}
    \cup {[status |-> "missing", rows |-> <<>>]}

\* A load that swallows its failure and hands back what it could parse.
read_csv_lenient(f) == [ok |-> TRUE, value |-> f.rows, raised |-> ""]

\* pd.read_csv("salaries.csv"): the table, or FileNotFoundError / ParserError.
read_csv(f) ==
    CASE f.status = "ok"        -> [ok |-> TRUE,  value |-> f.rows, raised |-> ""]
      [] f.status = "missing"   -> [ok |-> FALSE, value |-> <<>>, raised |-> "FileNotFoundError"]
      [] f.status = "malformed" -> [ok |-> FALSE, value |-> <<>>, raised |-> "ParserError"]

\* st.cache_data: whether load_data() has a stored result.
cache_hit(c) == c.hit

\* A store handing out the stored object itself, so that the column
\* assignment of line 31 writes through to it.
store_aliased(c, d) == [c EXCEPT !.value = d]

\* st.cache_data hands every caller its own copy of the stored table, so the
\* store is what it was after df["country_name"] = ... is assigned.
store_after_assign(c, d) == c

(***************************************************************************)
(* The script.                                                             *)
(***************************************************************************)
NoCard == [shown |-> FALSE, job |-> "", amount |-> 0]

\* The namespace of a script run before its first line.
FreshRun ==
    /\ pc = "load"
    /\ error = ""
    /\ read_attempts = 0
    /\ df = <<>>
    /\ selected_year = {}
    /\ selected_country = {}
    /\ selected_exp = {}
    /\ df_f = <<>>
    /\ trend = <<>>
    /\ job_salary = <<>>
    /\ top_job = ""
    /\ top_salary = 0
    /\ country_salary = <<>>
    /\ charts = <<>>
    /\ card = NoCard

Init ==
    /\ file \in Files
    /\ cache = [hit |-> FALSE, value |-> <<>>]
    /\ reads = 0
    /\ first_run = TRUE
    /\ FreshRun

Running(at) == pc = at /\ error = ""

\* df = load_data(), the stored table being there (lines 16-20).
LoadCached ==
    /\ Running("load")
    /\ cache_hit(cache)
    /\ df' = cache.value
    /\ pc' = "enrich"
    /\ UNCHANGED <<file, cache, reads, read_attempts, first_run, error,
                   selected_year, selected_country, selected_exp, df_f, trend,
                   job_salary, top_job, top_salary, country_salary, charts, card>>

\* df = load_data(), pd.read_csv returning the table (lines 16-20).
LoadRead ==
    /\ Running("load")
    /\ ~cache_hit(cache)
    /\ read_csv(file).ok
    /\ read_attempts' = read_attempts + 1
    /\ reads' = reads + 1
    /\ cache' = [hit |-> TRUE, value |-> read_csv(file).value]
    /\ df' = read_csv(file).value
    /\ pc' = "enrich"
    /\ UNCHANGED <<file, first_run, error,
                   selected_year, selected_country, selected_exp, df_f, trend,
                   job_salary, top_job, top_salary, country_salary, charts, card>>

\* df = load_data(), pd.read_csv raising: nothing is stored, the exception
\* leaves the script and Streamlit shows it (lines 16-20).
LoadFail ==
    /\ Running("load")
    /\ ~cache_hit(cache)
    /\ ~read_csv(file).ok
    /\ read_attempts' = read_attempts + 1
    /\ error' = read_csv(file).raised
    /\ UNCHANGED <<file, cache, reads, first_run, pc, df,
                   selected_year, selected_country, selected_exp, df_f, trend,
                   job_salary, top_job, top_salary, country_salary, charts, card>>

\* df["country_name"] = df["employee_residence"].apply(code_to_country)
\* (lines 25-31).
Enrich ==
    /\ Running("enrich")
    /\ \E mode \in MissModes : df' = Enriched(df, mode)
    /\ cache' = store_after_assign(cache, df')
    /\ pc' = "widgets"
    /\ UNCHANGED <<file, reads, read_attempts, first_run, error,
                   selected_year, selected_country, selected_exp, df_f, trend,
                   job_salary, top_job, top_salary, country_salary, charts, card>>

\* The sidebar in the session's first run: every widget at its default
\* (lines 48-63).
WidgetsDefault ==
    /\ Running("widgets")
    /\ first_run
    /\ selected_year' = SelectboxDefault(years(df))
    /\ selected_country' = Range(countries(df))
    /\ selected_exp' = Range(experience_levels(df))
    /\ pc' = "filter"
    /\ UNCHANGED <<file, cache, reads, read_attempts, first_run, error, df,
                   df_f, trend, job_salary, top_job, top_salary,
                   country_salary, charts, card>>

\* The sidebar in a rerun: whatever the user has set the widgets to
\* (lines 48-63).
WidgetsChosen ==
    /\ Running("widgets")
    /\ ~first_run
    /\ selected_year' \in SelectboxValues(years(df))
    /\ selected_country' \in MultiselectValues(countries(df))
    /\ selected_exp' \in MultiselectValues(experience_levels(df))
    /\ pc' = "filter"
    /\ UNCHANGED <<file, cache, reads, read_attempts, first_run, error, df,
                   df_f, trend, job_salary, top_job, top_salary,
                   country_salary, charts, card>>

\* df_f (lines 68-72).
FilterData ==
    /\ Running("filter")
    /\ df_f' = filter(df, selected_year, selected_country, selected_exp)
    /\ pc' = "trend"
    /\ UNCHANGED <<file, cache, reads, read_attempts, first_run, error, df,
                   selected_year, selected_country, selected_exp, trend,
                   job_salary, top_job, top_salary, country_salary, charts, card>>

\* trend and its line chart (lines 79-107).
TrendChart ==
    /\ Running("trend")
    /\ trend' = trend_of(df, selected_year, selected_country, selected_exp)
    /\ charts' = Append(charts, "trend")
    /\ pc' = "jobs"
    /\ UNCHANGED <<file, cache, reads, read_attempts, first_run, error, df,
                   selected_year, selected_country, selected_exp, df_f,
                   job_salary, top_job, top_salary, country_salary, card>>

\* job_salary (lines 114-120).
JobSalary ==
    /\ Running("jobs")
    /\ \E sorted \in sort_values(median_by_job_title(df_f)) :
           job_salary' = head(sorted, TopJobs)
    /\ pc' = "top"
    /\ UNCHANGED <<file, cache, reads, read_attempts, first_run, error, df,
                   selected_year, selected_country, selected_exp, df_f, trend,
                   top_job, top_salary, country_salary, charts, card>>

\* job_salary.iloc[0] on a ranking with no rows: IndexError (line 123).
TopJobRaises ==
    /\ Running("top")
    /\ job_salary = <<>>
    /\ error' = "IndexError"
    /\ UNCHANGED <<file, cache, reads, read_attempts, first_run, pc, df,
                   selected_year, selected_country, selected_exp, df_f, trend,
                   job_salary, top_job, top_salary, country_salary, charts, card>>

\* top_job, top_salary, the color column, the bar chart and the card
\* (lines 123-162).
TopJobChart ==
    /\ Running("top")
    /\ job_salary # <<>>
    /\ top_job' = job_salary[1].job_title
    /\ top_salary' = job_salary[1].salary_in_usd
    /\ job_salary' = with_color(job_salary, top_job')
    /\ charts' = Append(charts, "jobs")
    /\ card' = [shown |-> TRUE, job |-> top_job', amount |-> int_of(top_salary')]
    /\ pc' = "countries"
    /\ UNCHANGED <<file, cache, reads, read_attempts, first_run, error, df,
                   selected_year, selected_country, selected_exp, df_f, trend,
                   country_salary>>

\* country_salary and its bar chart (lines 168-182).
CountryChart ==
    /\ Running("countries")
    /\ \E sorted \in sort_values(median_by_country_name(df_f)) :
           country_salary' = head(sorted, TopCountries)
    /\ charts' = Append(charts, "countries")
    /\ pc' = "done"
    /\ UNCHANGED <<file, cache, reads, read_attempts, first_run, error, df,
                   selected_year, selected_country, selected_exp, df_f, trend,
                   job_salary, top_job, top_salary, card>>

\* The user changes a widget, or asks for a rerun: Streamlit drops the run
\* under way, if any, and executes the script again from the top in the same
\* session; only the cache store is kept.
Rerun ==
    /\ (pc # "load" \/ error # "")
    /\ first_run' = FALSE
    /\ pc' = "load"
    /\ error' = ""
    /\ read_attempts' = 0
    /\ df' = <<>>
    /\ selected_year' = {}
    /\ selected_country' = {}
    /\ selected_exp' = {}
    /\ df_f' = <<>>
    /\ trend' = <<>>
    /\ job_salary' = <<>>
    /\ top_job' = ""
    /\ top_salary' = 0
    /\ country_salary' = <<>>
    /\ charts' = <<>>
    /\ card' = NoCard
    /\ UNCHANGED <<file, cache, reads>>

\* The page is opened anew: a new session runs the script with its widgets
\* at their defaults, on the cache store of the process.
NewSession ==
    /\ (pc # "load" \/ error # "")
    /\ first_run' = TRUE
    /\ pc' = "load"
    /\ error' = ""
    /\ read_attempts' = 0
    /\ df' = <<>>
    /\ selected_year' = {}
    /\ selected_country' = {}
    /\ selected_exp' = {}
    /\ df_f' = <<>>
    /\ trend' = <<>>
    /\ job_salary' = <<>>
    /\ top_job' = ""
    /\ top_salary' = 0
    /\ country_salary' = <<>>
    /\ charts' = <<>>
    /\ card' = NoCard
    /\ UNCHANGED <<file, cache, reads>>

Next ==
    \/ LoadCached
    \/ LoadRead
    \/ LoadFail
    \/ Enrich
    \/ WidgetsDefault
    \/ WidgetsChosen
    \/ FilterData
    \/ TrendChart
    \/ JobSalary
    \/ TopJobRaises
    \/ TopJobChart
    \/ CountryChart
    \/ Rerun
    \/ NewSession

Spec == Init /\ [][Next]_vars

(***************************************************************************)
(* The first run of a session over files with many groups: every widget is *)
(* at its default, so the filtered view is the rows of the first year.     *)
(***************************************************************************)
InitRanking ==
    /\ file \in RankingFiles
    /\ cache = [hit |-> FALSE, value |-> <<>>]
    /\ reads = 0
    /\ first_run = TRUE
    /\ FreshRun

NextRanking ==
    \/ LoadRead
    \/ LoadFail
    \/ Enrich
    \/ WidgetsDefault
    \/ FilterData
    \/ TrendChart
    \/ JobSalary
    \/ TopJobRaises
    \/ TopJobChart
    \/ CountryChart

SpecRanking == InitRanking /\ [][NextRanking]_vars


(***************************************************************************)
(* Properties.                                                             *)
(***************************************************************************)
AfterEnrich == pc \in {"widgets", "filter", "trend", "jobs", "top", "countries", "done"}
AfterFilter == pc \in {"trend", "jobs", "top", "countries", "done"}
AfterTrend  == pc \in {"jobs", "top", "countries", "done"}
AfterJobs   == pc \in {"top", "countries", "done"}

\* The k-th smallest salary among the rows I of table d, found by counting.
KthSalary(d, I, k) ==
    CHOOSE v \in {d[i].salary_in_usd : i \in I} :
        /\ Cardinality({i \in I : d[i].salary_in_usd < v}) < k
        /\ k <= Cardinality({i \in I : d[i].salary_in_usd <= v})

\* The statistical median of the salaries of the rows I of d, in half-dollars:
\* the sum of the two middle order statistics (which coincide for an odd count).
StdMedian(d, I) ==
    LET n == Cardinality(I)
    IN  KthSalary(d, I, (n + 1) \div 2) + KthSalary(d, I, n \div 2 + 1)

JobRows(t) == {i \in DOMAIN df_f : df_f[i].job_title = t}
CountryRows(c) == {i \in DOMAIN df_f : df_f[i].country_name = c}
JobKeys == {df_f[i].job_title : i \in DOMAIN df_f}
CountryKeys == {df_f[i].country_name : i \in DOMAIN df_f}
AllCountries == {df[i].country_name : i \in DOMAIN df}
AllLevels == {df[i].experience_level : i \in DOMAIN df}

\* C1: a run whose filtered view has no rows (the table itself having rows)
\* completes without raising, with empty rankings and all three charts drawn.
C1_EmptyViewRunCompletes ==
    (AfterFilter /\ df # <<>> /\ df_f = <<>>) =>
        /\ error = ""
        /\ pc = "done" =>
            /\ job_salary = <<>>
            /\ country_salary = <<>>
            /\ charts = <<"trend", "jobs", "countries">>

\* C2: the filtered view holds exactly the rows of df of the selected year,
\* of a selected country and of a selected level: as many as match, the k-th
\* of them being the k-th matching row of df, unchanged.
C2_FilteredViewIsTheMatchingRows ==
    AfterFilter =>
        LET idx == {i \in DOMAIN df : /\ df[i].work_year \in selected_year
                                      /\ df[i].country_name \in selected_country
                                      /\ df[i].experience_level \in selected_exp}
            Nth(k) == CHOOSE i \in idx : Cardinality({j \in idx : j < i}) = k - 1
        IN  /\ Len(df_f) = Cardinality(idx)
            /\ \A k \in 1..Len(df_f) : df_f[k] = df[Nth(k)]

\* A row of the selected year is dropped from between two rows that are kept.
C2_Witness ==
    /\ pc = "trend"
    /\ Len(df) = 3
    /\ df_f = <<df[1], df[3]>>
    /\ df[2].work_year \in selected_year
    /\ df[2] # df[1]
    /\ df[2] # df[3]

\* C3: each ranking has min(n, k) rows for n groups, with distinct keys, each
\* with the median of its group, in non-increasing order of median, and no
\* group left out has a median above that of a group kept (k = 10 for job
\* titles, k = 20 for countries).  The three-row example of the
\* specification ranks Data Scientist at 160000 above Analyst at 50000.
C3_RankingContract ==
    /\ AfterJobs =>
        /\ Len(job_salary) = Min(Cardinality(JobKeys), TopJobs)
        /\ \A i, j \in DOMAIN job_salary :
               i # j => job_salary[i].job_title # job_salary[j].job_title
        /\ \A i \in DOMAIN job_salary :
               /\ job_salary[i].job_title \in JobKeys
               /\ job_salary[i].salary_in_usd
                      = StdMedian(df_f, JobRows(job_salary[i].job_title))
        /\ \A i, j \in DOMAIN job_salary :
               i < j => job_salary[i].salary_in_usd >= job_salary[j].salary_in_usd
        /\ \A t \in JobKeys \ {job_salary[i].job_title : i \in DOMAIN job_salary} :
               \A i \in DOMAIN job_salary :
                   StdMedian(df_f, JobRows(t)) <= job_salary[i].salary_in_usd
        /\ (df_f = Enriched(<<Row(2023, "SE", "US", "Data Scientist", 150000),
                              Row(2023, "SE", "US", "Data Scientist", 170000),
                              Row(2023, "EN", "DE", "Analyst", 50000)>>, "None")) =>
               /\ Len(job_salary) = 2
               /\ job_salary[1].job_title = "Data Scientist"
               /\ job_salary[1].salary_in_usd = 2 * 160000
               /\ job_salary[2].job_title = "Analyst"
               /\ job_salary[2].salary_in_usd = 2 * 50000
    /\ pc = "done" =>
        /\ Len(country_salary) = Min(Cardinality(CountryKeys), TopCountries)
        /\ \A i, j \in DOMAIN country_salary :
               i # j => country_salary[i].country_name # country_salary[j].country_name
        /\ \A i \in DOMAIN country_salary :
               /\ country_salary[i].country_name \in CountryKeys
               /\ country_salary[i].salary_in_usd
                      = StdMedian(df_f, CountryRows(country_salary[i].country_name))
        /\ \A i, j \in DOMAIN country_salary :
               i < j => country_salary[i].salary_in_usd >= country_salary[j].salary_in_usd
        /\ \A c \in CountryKeys \ {country_salary[i].country_name : i \in DOMAIN country_salary} :
               \A i \in DOMAIN country_salary :
                   StdMedian(df_f, CountryRows(c)) <= country_salary[i].salary_in_usd

\* Both rankings are cut: more than 10 titles and more than 20 countries, one
\* of them with more than one row.
C3_Witness ==
    /\ pc = "done"
    /\ Cardinality(JobKeys) > TopJobs
    /\ Len(job_salary) = TopJobs
    /\ Cardinality(CountryKeys) > TopCountries
    /\ Len(country_salary) = TopCountries
    /\ Len(df_f) > Cardinality(CountryKeys)

\* C4: the trend has one row for every (work_year, experience_level) pair of
\* the whole table whose level is selected, with the median of all the rows
\* of that pair, in ascending order of work_year; and it is the same for
\* every year and every country set the user could have selected with this
\* level set.
C4_TrendIgnoresYearAndCountry ==
    AfterTrend =>
        LET pairs == {<<df[i].work_year, df[i].experience_level>> :
                          i \in {j \in DOMAIN df : df[j].experience_level \in selected_exp}}
            PairRows(y, l) == {i \in DOMAIN df : /\ df[i].work_year = y
                                                 /\ df[i].experience_level = l}
        IN  /\ {<<trend[i].work_year, trend[i].experience_level>> : i \in DOMAIN trend} = pairs
            /\ Len(trend) = Cardinality(pairs)
            /\ \A i \in DOMAIN trend :
                   trend[i].salary_in_usd
                       = StdMedian(df, PairRows(trend[i].work_year, trend[i].experience_level))
            /\ \A i, j \in DOMAIN trend :
                   i < j => trend[i].work_year <= trend[j].work_year
            /\ \A y \in SelectboxValues(years(df)) :
                   \A c \in MultiselectValues(countries(df)) :
                       trend_of(df, y, c, selected_exp) = trend

\* The trend shows a year other than the selected one and rows of a country
\* that is not selected, while the job-title and the country rankings would
\* be other ones had the other year been selected.
C4_Witness ==
    /\ pc = "done"
    /\ \E i \in DOMAIN trend : trend[i].work_year \notin selected_year
    /\ selected_country # AllCountries
    /\ Len(trend) > 1
    /\ \E y \in SelectboxValues(years(df)) :
           /\ y # selected_year
           /\ median_by_job_title(filter(df, y, selected_country, selected_exp))
                  # median_by_job_title(df_f)
           /\ median_by_country_name(filter(df, y, selected_country, selected_exp))
                  # median_by_country_name(df_f)

\* C5: every value the three aggregators report is the statistical median of
\* its group: the middle value of an odd count, the mean of the two middle
\* values of an even count, the value itself for a single row;
\* [100,200,300,400] gives 250 and [100,200,300] gives 200.
C5_MedianIsStatisticalMedian ==
    /\ AfterTrend =>
        \A i \in DOMAIN trend :
            trend[i].salary_in_usd
                = StdMedian(df, {k \in DOMAIN df :
                                    /\ df[k].work_year = trend[i].work_year
                                    /\ df[k].experience_level = trend[i].experience_level})
    /\ AfterJobs =>
        /\ \A i \in DOMAIN job_salary :
               job_salary[i].salary_in_usd
                   = StdMedian(df_f, JobRows(job_salary[i].job_title))
        /\ (Cardinality(JobKeys) = 1 /\ Len(df_f) = 4
              /\ {df_f[i].salary_in_usd : i \in DOMAIN df_f} = {100, 200, 300, 400}) =>
               job_salary[1].salary_in_usd = 2 * 250
        /\ (Cardinality(JobKeys) = 1 /\ Len(df_f) = 3
              /\ {df_f[i].salary_in_usd : i \in DOMAIN df_f} = {100, 200, 300}) =>
               job_salary[1].salary_in_usd = 2 * 200
        /\ \A i \in DOMAIN job_salary :
               \A k \in DOMAIN df_f :
                   JobRows(job_salary[i].job_title) = {k} =>
                       job_salary[i].salary_in_usd = 2 * df_f[k].salary_in_usd
    /\ pc = "done" =>
        \A i \in DOMAIN country_salary :
            country_salary[i].salary_in_usd
                = StdMedian(df_f, CountryRows(country_salary[i].country_name))

\* The four amounts 300, 100, 400, 200 of one title, reported as 250.
C5_Witness ==
    /\ pc = "done"
    /\ Len(df_f) = 4
    /\ df_f[1].salary_in_usd = 300
    /\ df_f[2].salary_in_usd = 100
    /\ df_f[3].salary_in_usd = 400
    /\ df_f[4].salary_in_usd = 200
    /\ top_salary = 500
    /\ trend[1].salary_in_usd = 500
    /\ country_salary[1].salary_in_usd = 500

\* C6: after the enrichment every row has the registry's name of its
\* residence code as country_name when the registry has the code, and the code
\* itself when it has not; the row count and the five source fields are those
\* of the loaded table, and the enrichment raises nothing.
C6_EnrichmentFallsBackToCode ==
    AfterEnrich =>
        /\ Len(df) = Len(cache.value)
        /\ pc = "widgets" => error = ""
        /\ \A i \in DOMAIN df :
               /\ df[i].country_name
                      = IF df[i].employee_residence \in DOMAIN Registry
                        THEN Registry[df[i].employee_residence]
                        ELSE df[i].employee_residence
               /\ df[i].work_year = cache.value[i].work_year
               /\ df[i].experience_level = cache.value[i].experience_level
               /\ df[i].employee_residence = cache.value[i].employee_residence
               /\ df[i].job_title = cache.value[i].job_title
               /\ df[i].salary_in_usd = cache.value[i].salary_in_usd

\* A table with a code of the registry and a code outside it, enriched.
C6_Witness ==
    /\ pc = "widgets"
    /\ \E i \in DOMAIN df : /\ df[i].employee_residence = "US"
                            /\ df[i].country_name = "United States"
    /\ \E i \in DOMAIN df : /\ df[i].employee_residence = "XX"
                            /\ df[i].country_name = "XX"

\* First row of the filtered view with the given title / country.
FirstJobRow(t) == CHOOSE i \in JobRows(t) : \A j \in JobRows(t) : i <= j
FirstCountryRow(c) == CHOOSE i \in CountryRows(c) : \A j \in CountryRows(c) : i <= j

\* Tied rows of the job ranking stand in the order groupby hands them to
\* the sort (ascending title), as a sort that is stable leaves them.
JobTiesInKeyOrder ==
    /\ \A i, j \in DOMAIN job_salary :
           (i < j /\ job_salary[i].salary_in_usd = job_salary[j].salary_in_usd) =>
               StrRank(job_salary[i].job_title) < StrRank(job_salary[j].job_title)
    /\ \A t \in JobKeys \ {job_salary[i].job_title : i \in DOMAIN job_salary} :
           \A i \in DOMAIN job_salary :
               StdMedian(df_f, JobRows(t)) = job_salary[i].salary_in_usd =>
                   StrRank(job_salary[i].job_title) < StrRank(t)

\* The same of the country ranking.
CountryTiesInKeyOrder ==
    /\ \A i, j \in DOMAIN country_salary :
           (i < j /\ country_salary[i].salary_in_usd = country_salary[j].salary_in_usd) =>
               StrRank(country_salary[i].country_name) < StrRank(country_salary[j].country_name)
    /\ \A c \in CountryKeys \ {country_salary[i].country_name : i \in DOMAIN country_salary} :
           \A i \in DOMAIN country_salary :
               StdMedian(df_f, CountryRows(c)) = country_salary[i].salary_in_usd =>
                   StrRank(country_salary[i].country_name) < StrRank(c)

\* C7: in both rankings, of two groups with equal medians the one met first
\* in the filtered view comes first, and a group cut off by the truncation
\* was met after every kept group of the same median.  Stated of the results
\* in which the sort has left tied rows as it found them, which is what a
\* stable sort gives: the other results are no more in encounter order.
C7_TiesKeepEncounterOrder ==
    /\ (AfterJobs /\ JobTiesInKeyOrder) =>
        /\ \A i, j \in DOMAIN job_salary :
               (i < j /\ job_salary[i].salary_in_usd = job_salary[j].salary_in_usd) =>
                   FirstJobRow(job_salary[i].job_title) < FirstJobRow(job_salary[j].job_title)
        /\ \A t \in JobKeys \ {job_salary[i].job_title : i \in DOMAIN job_salary} :
               \A i \in DOMAIN job_salary :
                   StdMedian(df_f, JobRows(t)) = job_salary[i].salary_in_usd =>
                       FirstJobRow(job_salary[i].job_title) < FirstJobRow(t)
    /\ (pc = "done" /\ CountryTiesInKeyOrder) =>
        /\ \A i, j \in DOMAIN country_salary :
               (i < j /\ country_salary[i].salary_in_usd = country_salary[j].salary_in_usd) =>
                   FirstCountryRow(country_salary[i].country_name)
                       < FirstCountryRow(country_salary[j].country_name)
        /\ \A c \in CountryKeys \ {country_salary[i].country_name : i \in DOMAIN country_salary} :
               \A i \in DOMAIN country_salary :
                   StdMedian(df_f, CountryRows(c)) = country_salary[i].salary_in_usd =>
                       FirstCountryRow(country_salary[i].country_name) < FirstCountryRow(c)

\* C8: with both multiselects at their full default the view is the rows of
\* the selected year; with the countries at their full default it is the
\* rows of the year and the selected levels; with the levels at their full
\* default it is the rows of the year and the selected countries.
C8_FullDefaultIsIdentity ==
    AfterFilter =>
        /\ (selected_country = AllCountries /\ selected_exp = AllLevels) =>
               df_f = SelectSeq(df, LAMBDA r : r.work_year \in selected_year)
        /\ selected_country = AllCountries =>
               df_f = SelectSeq(df, LAMBDA r : /\ r.work_year \in selected_year
                                               /\ r.experience_level \in selected_exp)
        /\ selected_exp = AllLevels =>
               df_f = SelectSeq(df, LAMBDA r : /\ r.work_year \in selected_year
                                               /\ r.country_name \in selected_country)

\* All countries and all levels selected over a table of two years, two
\* countries and two levels: the view is the rows of one year.
C8_Witness ==
    /\ pc = "trend"
    /\ selected_country = AllCountries
    /\ selected_exp = AllLevels
    /\ Cardinality(AllCountries) > 1
    /\ Cardinality(AllLevels) > 1
    /\ df_f # <<>>
    /\ Len(df_f) < Len(df)
    /\ \E i \in DOMAIN df_f : df_f[i].country_name # df_f[i].employee_residence

\* C9: when salaries.csv is missing or malformed the run stops at the load
\* with the exception shown: pd.read_csv is called once, no table (not even
\* the rows that could be parsed) reaches df or the cache, and no widget
\* value, aggregate, card or chart is produced.  A chart is only ever drawn
\* from a table that was loaded.
C9_LoadFailureStopsTheRun ==
    /\ file.status # "ok" =>
        /\ pc = "load"
        /\ read_attempts <= 1
        /\ read_attempts = 1 => error \in {"FileNotFoundError", "ParserError"}
        /\ ~cache.hit
        /\ cache.value = <<>>
        /\ df = <<>>
        /\ selected_year = {} /\ selected_country = {} /\ selected_exp = {}
        /\ df_f = <<>> /\ trend = <<>> /\ job_salary = <<>> /\ country_salary = <<>>
        /\ charts = <<>>
        /\ ~card.shown
    /\ (charts # <<>> \/ card.shown) => (file.status = "ok" /\ cache.hit)

\* A malformed file with a row that parses: the run has stopped on ParserError.
C9_Witness ==
    /\ file.status = "malformed"
    /\ file.rows # <<>>
    /\ error = "ParserError"
    /\ ~first_run

\* C10: pd.read_csv returns a table at most once; from then on the cache
\* holds exactly the rows of the file, without a country_name column,
\* whatever runs have been made; the table of every run has those rows as
\* its source fields; and what a completed run shows is what the filter and
\* the aggregators give for the cached rows and the run's selection.
C10_CachedTableIsNeverChanged ==
    /\ reads <= 1
    /\ cache.hit <=> reads = 1
    /\ cache.value = (IF cache.hit THEN file.rows ELSE <<>>)
    /\ (pc # "load") => Len(df) = Len(cache.value)
    /\ pc = "done" =>
        LET table == Enriched(cache.value, "None")
            view  == filter(table, selected_year, selected_country, selected_exp)
        IN  /\ df = table
            /\ df_f = view
            /\ trend = trend_of(table, selected_year, selected_country, selected_exp)
            /\ \E o \in sort_values(median_by_job_title(view)) :
                   /\ job_salary = with_color(head(o, TopJobs), o[1].job_title)
                   /\ top_job = o[1].job_title
                   /\ top_salary = o[1].salary_in_usd
            /\ \E o \in sort_values(median_by_country_name(view)) :
                   country_salary = head(o, TopCountries)

\* A rerun with another selection has completed on the cached table.
C10_Witness ==
    /\ ~first_run
    /\ pc = "done"
    /\ cache.hit
    /\ reads = 1
    /\ Len(cache.value) = 3
    /\ selected_country # AllCountries
    /\ Len(df_f) = 2

====
